---- MODULE Spec2Model ----
(***************************************************************************)
(* Model of sentry.api.endpoints.auth_index.AuthIndexEndpoint: the four    *)
(* request handlers get / post / put / delete acting on one session, with  *)
(* the identity store, the two-factor registry and the session manager as  *)
(* collaborators.                                                          *)
(***************************************************************************)
EXTENDS Integers, Sequences, FiniteSets, TLC

\* ------------------------------------------------------------------ bounds
NumIdentities == 2

\* ------------------------------------------------------------- vocabulary
\* id of AnonymousUser (no identity)
None == 0
Identities == 1..NumIdentities
FactorKinds == {"u2f", "totp"}

\* a field that is not in the PUT payload
Absent == "<absent>"
\* password strings a caller may send
Passwords == {"secret", "wrong"}
\* challenge / response strings a caller may send; "{" is not JSON
Challenges == {"{\"challenge\":1}", "{"}
Responses == {"{\"sig\":\"good\"}", "{\"sig\":\"bad\"}", "{"}

Bodies ==
  [password : Passwords \cup {Absent},
   challenge : Challenges \cup {Absent},
   response : Responses \cup {Absent}]
EmptyBody == [password |-> Absent, challenge |-> Absent, response |-> Absent]

\* ------------------------------------------------------------------ state
VARIABLES
  enrolled,       \* identity -> set of enrolled factor kinds
  expired,        \* identity -> has_password_expired
  u2fRegistered,  \* whether the registry knows a u2f interface at all
  session,        \* the session of the client
  factorPassed,   \* history: some request had validateResponse return true
  last            \* the last request handled and what it did

vars == <<enrolled, expired, u2fRegistered, session, factorPassed, last>>

AnonymousSession ==
  [identity_id |-> None, is_authenticated |-> FALSE,
   is_superuser |-> FALSE, privilege_elevated |-> FALSE]

\* ---------------------------------------------------------- collaborators
\* user.is_superuser: identity 1 is the superuser of the store
is_superuser(user) == user = 1

\* IdentityStore.checkPassword: every identity's password is "secret"
check_password(user, plaintext) == plaintext = "secret"

\* Authenticator.objects.user_has_2fa
user_has_2fa(user) == enrolled[user] # {}

\* json.loads on the strings above: ok = FALSE stands for ValueError
json_loads(s) ==
  IF s = "{\"challenge\":1}" THEN [ok |-> TRUE, value |-> "challenge"]
  ELSE IF s = "{\"sig\":\"good\"}" THEN [ok |-> TRUE, value |-> "good"]
  ELSE IF s = "{\"sig\":\"bad\"}" THEN [ok |-> TRUE, value |-> "bad"]
  ELSE [ok |-> FALSE, value |-> "ValueError"]

\* Interface.validateResponse: the device's signature over the challenge
validate_response(user, challenge, response) ==
  challenge = "challenge" /\ response = "good"

\* SessionManager.login: raises PasswordExpired and establishes nothing, or
\* makes the session that of `user` (a session of another identity is
\* replaced by a fresh one)
login(sess, user) ==
  IF expired[user]
  THEN [raised |-> TRUE, session |-> sess]
  ELSE [raised |-> FALSE,
        session |->
          [identity_id |-> user, is_authenticated |-> TRUE,
           is_superuser |-> is_superuser(user),
           privilege_elevated |->
             sess.is_authenticated /\ sess.identity_id = user
               /\ sess.privilege_elevated]]

\* SessionManager.elevatePrivilege
grant_sudo_privileges(sess) == [sess EXCEPT !.privilege_elevated = TRUE]

\* SessionManager.logout
logout(sess) == AnonymousSession

\* AuthVerifyValidator.is_valid: a password, or a challenge with a response
is_valid(body) ==
  \/ body.password # Absent
  \/ body.challenge # Absent /\ body.response # Absent

\* ---------------------------------------------------------------- request
\* request.user as the authentication classes resolve it: basic auth first,
\* then the session
request_user(basic, sess) ==
  IF basic # None THEN basic
  ELSE IF sess.is_authenticated THEN sess.identity_id
  ELSE None

NoData == [kind |-> "none", id |-> None, isSuperuser |-> FALSE]
Data(kind) == [kind |-> kind, id |-> None, isSuperuser |-> FALSE]

Response(sess, status, data, calls, authenticated) ==
  [session |-> sess, status |-> status, data |-> data, calls |-> calls,
   authenticated |-> authenticated]

\* ---------------------------------------------------------------- handlers
\* get, with request.user = user and request._request.user that of sess
get_as(user, sess, calls, authenticated) ==
  IF user = None
  THEN Response(sess, 400, NoData, calls, authenticated)
  ELSE Response(sess, 200,
                [kind |-> "identity", id |-> sess.identity_id,
                 isSuperuser |-> sess.is_superuser],
                calls, authenticated)

\* mutant: the not-authenticated answer of get is 401, as that of put
get_401(basic, body, sess) ==
  IF request_user(basic, sess) = None
  THEN Response(sess, 401, NoData, <<>>, FALSE)
  ELSE get_as(request_user(basic, sess), sess, <<>>, FALSE)

\* mutant: get keeps the basic-auth user in the session without a login
get_persist(basic, body, sess) ==
  LET user == request_user(basic, sess) IN
  IF user = None
  THEN Response(sess, 400, NoData, <<>>, FALSE)
  ELSE LET s2 == [identity_id |-> user, is_authenticated |-> TRUE,
                  is_superuser |-> is_superuser(user),
                  privilege_elevated |-> sess.privilege_elevated] IN
       get_as(user, s2, <<>>, FALSE)

\* mutant: isSuperuser tells an active (elevated) superuser session
get_activeSuperuser(basic, body, sess) ==
  IF request_user(basic, sess) = None
  THEN Response(sess, 400, NoData, <<>>, FALSE)
  ELSE Response(sess, 200,
                [kind |-> "identity", id |-> sess.identity_id,
                 isSuperuser |->
                   sess.is_superuser /\ sess.privilege_elevated],
                <<>>, FALSE)

get(basic, body, sess) == get_as(request_user(basic, sess), sess, <<>>, FALSE)

\* mutant: post without the user_has_2fa refusal
post_no2fa(basic, body, sess) ==
  LET user == request_user(basic, sess) IN
  IF user = None
  THEN Response(sess, 400, NoData, <<>>, FALSE)
  ELSE LET l == login(sess, user) IN
       IF l.raised
       THEN Response(sess, 403, Data("message"), <<"login">>, FALSE)
       ELSE get_as(l.session.identity_id, l.session, <<"login">>, FALSE)

\* mutant: post answers with the user it had before login (line 94 left out)
post_staleUser(basic, body, sess) ==
  LET user == request_user(basic, sess) IN
  IF user = None
  THEN Response(sess, 400, NoData, <<>>, FALSE)
  ELSE IF user_has_2fa(user)
  THEN Response(sess, 403, Data("2fa_required"), <<>>, FALSE)
  ELSE LET l == login(sess, user) IN
       IF l.raised
       THEN Response(sess, 403, Data("message"), <<"login">>, FALSE)
       ELSE [get_as(user, sess, <<"login">>, FALSE)
               EXCEPT !.session = l.session]

\* mutant: post does not let PasswordExpired stop the sign-in
post_ignoreExpired(basic, body, sess) ==
  LET user == request_user(basic, sess) IN
  IF user = None
  THEN Response(sess, 400, NoData, <<>>, FALSE)
  ELSE IF user_has_2fa(user)
  THEN Response(sess, 403, Data("2fa_required"), <<>>, FALSE)
  ELSE LET s2 == [identity_id |-> user, is_authenticated |-> TRUE,
                  is_superuser |-> is_superuser(user),
                  privilege_elevated |-> FALSE] IN
       IF login(sess, user).raised
       THEN Response(s2, 403, Data("message"), <<"login">>, FALSE)
       ELSE get_as(user, s2, <<"login">>, FALSE)

post(basic, body, sess) ==
  LET user == request_user(basic, sess) IN
  IF user = None
  THEN Response(sess, 400, NoData, <<>>, FALSE)
  ELSE IF user_has_2fa(user)
  THEN Response(sess, 403, Data("2fa_required"), <<>>, FALSE)
  ELSE LET l == login(sess, user) IN
       IF l.raised
       THEN Response(sess, 403, Data("message"), <<"login">>, FALSE)
       ELSE get_as(l.session.identity_id, l.session, <<"login">>, FALSE)

\* mutant: `authenticated` starts True, so a swallowed exception verifies
verify_initTrue(user, body) ==
  IF body.challenge # Absent /\ body.response # Absent
  THEN IF ~u2fRegistered
       THEN [authenticated |-> TRUE, calls |-> <<"getInterface">>]
       ELSE IF "u2f" \notin enrolled[user]
       THEN [authenticated |-> TRUE, calls |-> <<"getInterface">>]
       ELSE LET challenge == json_loads(body.challenge)
                response == json_loads(body.response) IN
            IF ~challenge.ok \/ ~response.ok
            THEN [authenticated |-> TRUE, calls |-> <<"getInterface">>]
            ELSE [authenticated |->
                    validate_response(user, challenge.value, response.value),
                  calls |-> <<"getInterface", "validateResponse">>]
  ELSE [authenticated |-> check_password(user, body.password),
        calls |-> <<"checkPassword">>]

\* mutant: the password is checked first whenever one is present
verify_passwordFirst(user, body) ==
  IF body.password # Absent
  THEN [authenticated |-> check_password(user, body.password),
        calls |-> <<"checkPassword">>]
  ELSE IF ~u2fRegistered \/ "u2f" \notin enrolled[user]
  THEN [authenticated |-> FALSE, calls |-> <<"getInterface">>]
  ELSE LET challenge == json_loads(body.challenge)
           response == json_loads(body.response) IN
       IF ~challenge.ok \/ ~response.ok
       THEN [authenticated |-> FALSE, calls |-> <<"getInterface">>]
       ELSE [authenticated |->
               validate_response(user, challenge.value, response.value),
             calls |-> <<"getInterface", "validateResponse">>]

\* mutant: the payloads are handed to validate_response without json.loads
verify_noParse(user, body) ==
  IF body.challenge # Absent /\ body.response # Absent
  THEN IF ~u2fRegistered \/ "u2f" \notin enrolled[user]
       THEN [authenticated |-> FALSE, calls |-> <<"getInterface">>]
       ELSE [authenticated |->
               validate_response(user, json_loads(body.challenge).value,
                                 json_loads(body.response).value),
             calls |-> <<"getInterface", "validateResponse">>]
  ELSE [authenticated |-> check_password(user, body.password),
        calls |-> <<"checkPassword">>]

\* mutant: is_enrolled is not looked at
verify_noEnrolledCheck(user, body) ==
  IF body.challenge # Absent /\ body.response # Absent
  THEN IF ~u2fRegistered
       THEN [authenticated |-> FALSE, calls |-> <<"getInterface">>]
       ELSE LET challenge == json_loads(body.challenge)
                response == json_loads(body.response) IN
            IF ~challenge.ok \/ ~response.ok
            THEN [authenticated |-> FALSE, calls |-> <<"getInterface">>]
            ELSE [authenticated |->
                    validate_response(user, challenge.value, response.value),
                  calls |-> <<"getInterface", "validateResponse">>]
  ELSE [authenticated |-> check_password(user, body.password),
        calls |-> <<"checkPassword">>]

\* lines 114-133 of put: the local `authenticated` and the calls made
verify(user, body) ==
  IF body.challenge # Absent /\ body.response # Absent
  THEN IF ~u2fRegistered
       THEN [authenticated |-> FALSE, calls |-> <<"getInterface">>]
       ELSE IF "u2f" \notin enrolled[user]
       THEN [authenticated |-> FALSE, calls |-> <<"getInterface">>]
       ELSE LET challenge == json_loads(body.challenge)
                response == json_loads(body.response) IN
            IF ~challenge.ok \/ ~response.ok
            THEN [authenticated |-> FALSE, calls |-> <<"getInterface">>]
            ELSE [authenticated |->
                    validate_response(user, challenge.value, response.value),
                  calls |-> <<"getInterface", "validateResponse">>]
  ELSE [authenticated |-> check_password(user, body.password),
        calls |-> <<"checkPassword">>]

\* mutant: sudo is granted before login, so an expired password still elevates
put_grantFirst(basic, body, sess) ==
  LET user == request_user(basic, sess) IN
  IF user = None
  THEN Response(sess, 401, NoData, <<>>, FALSE)
  ELSE IF ~is_valid(body)
  THEN Response(sess, 400, Data("errors"), <<>>, FALSE)
  ELSE LET v == verify(user, body) IN
       IF ~v.authenticated
       THEN Response(sess, 403, Data("ignore"), v.calls, v.authenticated)
       ELSE LET s1 == grant_sudo_privileges(sess)
                l == login(s1, user) IN
            IF l.raised
            THEN Response(s1, 403, Data("password-expired"),
                          v.calls \o <<"elevatePrivilege", "login">>,
                          v.authenticated)
            ELSE get_as(l.session.identity_id,
                        grant_sudo_privileges(l.session),
                        v.calls \o <<"elevatePrivilege", "login">>,
                        v.authenticated)

\* mutant: the payload is not validated before it is verified
put_noValidation(basic, body, sess) ==
  LET user == request_user(basic, sess) IN
  IF user = None
  THEN Response(sess, 401, NoData, <<>>, FALSE)
  ELSE LET v == verify(user, body) IN
       IF ~v.authenticated
       THEN Response(sess, 403, Data("ignore"), v.calls, v.authenticated)
       ELSE LET l == login(sess, user) IN
            IF l.raised
            THEN Response(sess, 403, Data("password-expired"),
                          v.calls \o <<"login">>, v.authenticated)
            ELSE LET s2 == grant_sudo_privileges(l.session) IN
                 get_as(s2.identity_id, s2,
                        v.calls \o <<"login", "elevatePrivilege">>,
                        v.authenticated)

\* mutant: failed verification logs the session out
put_logoutOnFail(basic, body, sess) ==
  LET user == request_user(basic, sess) IN
  IF user = None
  THEN Response(sess, 401, NoData, <<>>, FALSE)
  ELSE IF ~is_valid(body)
  THEN Response(sess, 400, Data("errors"), <<>>, FALSE)
  ELSE LET v == verify(user, body) IN
       IF ~v.authenticated
       THEN Response(logout(sess), 403, Data("ignore"),
                     v.calls \o <<"logout">>, v.authenticated)
       ELSE LET l == login(sess, user) IN
            IF l.raised
            THEN Response(sess, 403, Data("password-expired"),
                          v.calls \o <<"login">>, v.authenticated)
            ELSE LET s2 == grant_sudo_privileges(l.session) IN
                 get_as(s2.identity_id, s2,
                        v.calls \o <<"login", "elevatePrivilege">>,
                        v.authenticated)

put(basic, body, sess) ==
  LET user == request_user(basic, sess) IN
  IF user = None
  THEN Response(sess, 401, NoData, <<>>, FALSE)
  ELSE IF ~is_valid(body)
  THEN Response(sess, 400, Data("errors"), <<>>, FALSE)
  ELSE LET v == verify(user, body) IN
       IF ~v.authenticated
       THEN Response(sess, 403, Data("ignore"), v.calls, v.authenticated)
       ELSE LET l == login(sess, user) IN
            IF l.raised
            THEN Response(sess, 403, Data("password-expired"),
                          v.calls \o <<"login">>, v.authenticated)
            ELSE LET s2 == grant_sudo_privileges(l.session) IN
                 get_as(s2.identity_id, s2,
                        v.calls \o <<"login", "elevatePrivilege">>,
                        v.authenticated)

\* mutant: delete refuses a request that is not authenticated
delete_authOnly(basic, body, sess) ==
  IF request_user(basic, sess) = None
  THEN Response(sess, 400, NoData, <<>>, FALSE)
  ELSE Response(logout(sess), 204, NoData, <<"logout">>, FALSE)

\* mutant: delete answers 204 without calling logout
delete_noLogout(basic, body, sess) ==
  Response(sess, 204, NoData, <<>>, FALSE)

delete(basic, body, sess) ==
  Response(logout(sess), 204, NoData, <<"logout">>, FALSE)

\* ------------------------------------------------------------------ actions
Handle(method, basic, body, r) ==
  /\ last.method = "none"
  /\ session' = r.session
  /\ factorPassed' =
       (factorPassed \/ (r.authenticated /\ "validateResponse" \in
                           {r.calls[k] : k \in DOMAIN r.calls}))
  /\ last' = [method |-> method, basic |-> basic, body |-> body,
              user |-> request_user(basic, session), pre |-> session,
              status |-> r.status, data |-> r.data, calls |-> r.calls,
              authenticated |-> r.authenticated]
  /\ UNCHANGED <<enrolled, expired, u2fRegistered>>

Get ==
  \E basic \in Identities \cup {None} :
    Handle("GET", basic, EmptyBody, get(basic, EmptyBody, session))

Post ==
  \E basic \in Identities \cup {None} :
    Handle("POST", basic, EmptyBody, post(basic, EmptyBody, session))

Put ==
  \E basic \in Identities \cup {None}, body \in Bodies :
    Handle("PUT", basic, body, put(basic, body, session))

Delete ==
  \E basic \in Identities \cup {None} :
    Handle("DELETE", basic, EmptyBody, delete(basic, EmptyBody, session))

\* no request in flight
NoRequest ==
  [method |-> "none", basic |-> None, body |-> EmptyBody,
   user |-> None, pre |-> AnonymousSession,
   status |-> 0, data |-> NoData, calls |-> <<>>,
   authenticated |-> FALSE]

\* the response is returned and the request-scoped objects are dropped
Respond ==
  /\ last.method # "none"
  /\ last' = NoRequest
  /\ UNCHANGED <<enrolled, expired, u2fRegistered, session,
                 factorPassed>>

Init ==
  /\ enrolled \in [Identities -> SUBSET FactorKinds]
  /\ expired \in [Identities -> BOOLEAN]
  /\ u2fRegistered \in BOOLEAN
  /\ session = AnonymousSession
  /\ factorPassed = FALSE
  /\ last = NoRequest

Next == Get \/ Post \/ Put \/ Delete \/ Respond

Spec == Init /\ [][Next]_vars

\* ------------------------------------------------------------ claim terms
\* the collaborator call `op` was made while handling the last request
Called(op) == \E k \in DOMAIN last.calls : last.calls[k] = op
Count(op) == Cardinality({k \in DOMAIN last.calls : last.calls[k] = op})

\* what the caller sent, judged apart from the handler
PasswordCorrect == last.body.password = "secret"
FactorPath == last.body.challenge # Absent /\ last.body.response # Absent
Unparseable ==
  last.body.challenge \notin {Absent, "{\"challenge\":1}"}
    \/ last.body.response \notin {Absent, "{\"sig\":\"good\"}", "{\"sig\":\"bad\"}"}
FactorPasses ==
  /\ last.user # None
  /\ u2fRegistered
  /\ "u2f" \in enrolled[last.user]
  /\ last.body.challenge = "{\"challenge\":1}"
  /\ last.body.response = "{\"sig\":\"good\"}"
InvalidCredentials == last.status = 403 /\ last.data = Data("ignore")

\* C1: privilege_elevated goes from false to true only in a PUT that verified
\* the caller's credentials in that same call (the password check returned
\* true or validateResponse returned true); never in GET, POST or DELETE.
C1_ElevatedOnlyByVerifiedPut ==
  (last.method # "none" /\ ~last.pre.privilege_elevated
     /\ session.privilege_elevated)
  => /\ last.method = "PUT"
     /\ last.authenticated
     /\ \/ Called("checkPassword") /\ PasswordCorrect
        \/ Called("validateResponse") /\ FactorPasses

C1_Witness ==
  /\ last.method = "PUT"
  /\ ~last.pre.privilege_elevated
  /\ session.privilege_elevated
  /\ Called("validateResponse")

\* C2: for an identity with an enrolled factor, as long as no request has
\* presented a valid factor response, login is never called for it and the
\* session never becomes authenticated or elevated as that identity.
C2_NoPrimaryLoginWith2fa ==
  \A i \in Identities :
    (user_has_2fa(i) /\ ~factorPassed)
    => /\ ~(last.user = i /\ Called("login"))
       /\ ~(session.identity_id = i /\ session.is_authenticated)
       /\ ~(session.identity_id = i /\ session.privilege_elevated)

\* C3: the session goes from not authenticated to authenticated only by a
\* login call of POST or PUT that returned without raising PasswordExpired.
C3_AuthenticatedOnlyByLogin ==
  (last.method # "none" /\ ~last.pre.is_authenticated
     /\ session.is_authenticated)
  => /\ last.method \in {"POST", "PUT"}
     /\ Called("login")
     /\ last.user # None
     /\ ~expired[last.user]
     /\ last.status = 200
     /\ session.identity_id = last.user

C3_Witness ==
  /\ last.method = "POST"
  /\ ~last.pre.is_authenticated
  /\ session.is_authenticated
  /\ Called("login")

C5_UnauthenticatedNoEffect ==
  (last.method \in {"GET", "PUT"} /\ last.user = None)
  => /\ last.status = (IF last.method = "GET" THEN 400 ELSE 401)
     /\ last.data = NoData
     /\ last.calls = <<>>
     /\ session = last.pre

C5_Witness ==
  /\ last.method = "PUT"
  /\ last.user = None
  /\ last.body.password = "secret"
  /\ last.status = 401

\* C6: a PUT that succeeds has called elevatePrivilege exactly once; a PUT
\* that fails (401, 400 or 403) has not called it.
C6_ElevateOnceOnSuccess ==
  last.method = "PUT"
  => /\ last.status \in {200, 400, 401, 403}
     /\ last.status = 200 => Count("elevatePrivilege") = 1
     /\ last.status # 200 => Count("elevatePrivilege") = 0

C6_Witness ==
  /\ last.method = "PUT"
  /\ last.status = 403
  /\ last.data = Data("password-expired")
  /\ Called("login")

\* C7: DELETE from any session calls logout, answers 204 with no content
\* and leaves the session anonymous.
C7_DeleteAlwaysLogsOut ==
  last.method = "DELETE"
  => /\ last.status = 204
     /\ last.data = NoData
     /\ last.calls = <<"logout">>
     /\ session = AnonymousSession

C7_Witness ==
  /\ last.method = "DELETE"
  /\ last.user = None
  /\ ~last.pre.is_authenticated
  /\ last.status = 204

\* C8: in an authenticated PUT whose payload has both challenge and
\* response, checkPassword is never called; a correct password with a failing
\* factor verification answers 403 with code ignore, and a wrong password
\* with a passing factor verification succeeds unless login reports the
\* password expired, and then answers 403 with code password-expired.
C8_FactorPathDecides ==
  (last.method = "PUT" /\ last.user # None /\ FactorPath)
  => /\ ~Called("checkPassword")
     /\ (PasswordCorrect /\ ~FactorPasses) => InvalidCredentials
     /\ (last.body.password = "wrong" /\ FactorPasses) =>
          IF expired[last.user]
          THEN /\ last.status = 403
               /\ last.data = Data("password-expired")
               /\ session = last.pre
          ELSE /\ last.status = 200
               /\ Count("elevatePrivilege") = 1
               /\ session.privilege_elevated

C8_Witness ==
  /\ last.method = "PUT"
  /\ last.user # None
  /\ last.body.password = "wrong"
  /\ FactorPasses
  /\ last.status = 200

\* C8 as stated: with both challenge and response present, checkPassword is
\* never called, a correct password with a failing factor verification
\* answers InvalidCredentials, and a wrong password with a passing factor
\* verification yields success.
C8_AsStated ==
  (last.method = "PUT" /\ last.user # None /\ FactorPath)
  => /\ ~Called("checkPassword")
     /\ (PasswordCorrect /\ ~FactorPasses) => InvalidCredentials
     /\ (last.body.password = "wrong" /\ FactorPasses) => last.status = 200

C11_LoginBeforeElevate ==
  (last.method = "PUT" /\ last.authenticated)
  => /\ Count("login") = 1
     /\ \A k \in DOMAIN last.calls :
          last.calls[k] = "elevatePrivilege"
          => \E j \in 1..(k - 1) : last.calls[j] = "login"
     /\ expired[last.user]
        => /\ last.status = 403
           /\ last.data = Data("password-expired")
           /\ ~Called("elevatePrivilege")
           /\ session.privilege_elevated = last.pre.privilege_elevated
     /\ ~expired[last.user]
        => /\ last.status = 200
           /\ Called("elevatePrivilege")

C11_Witness ==
  /\ last.method = "PUT"
  /\ last.authenticated
  /\ last.user # None
  /\ expired[last.user]
  /\ PasswordCorrect
  /\ ~last.pre.privilege_elevated
  /\ ~session.privilege_elevated
  /\ last.calls = <<"checkPassword", "login">>

\* C12: a POST for an identity without enrolled factors whose login raises
\* PasswordExpired answers 403 and establishes nothing: is_authenticated
\* and identity_id of the session are as before the call.
C12_PostExpiredEstablishesNothing ==
  (last.method = "POST" /\ last.user # None /\ enrolled[last.user] = {}
     /\ expired[last.user])
  => /\ last.status = 403
     /\ last.data = Data("message")
     /\ last.calls = <<"login">>
     /\ session.is_authenticated = last.pre.is_authenticated
     /\ session.identity_id = last.pre.identity_id

C12_Witness ==
  /\ last.method = "POST"
  /\ last.basic # None
  /\ enrolled[last.basic] = {}
  /\ expired[last.basic]
  /\ ~last.pre.is_authenticated
  /\ last.status = 403
  /\ ~session.is_authenticated

\* the session-level state of the spec's state machine
Level(sess) ==
  IF ~sess.is_authenticated THEN "Anonymous"
  ELSE IF sess.privilege_elevated THEN "Elevated"
  ELSE "Authenticated"

\* C13: every change of the session-level state is Anonymous to
\* Authenticated by a successful POST for an identity without factors,
\* Authenticated to Elevated by a successful PUT, or Authenticated/Elevated
\* to Anonymous by DELETE; a PUT from Anonymous changes nothing.
C13_ThreeTransitions ==
  /\ (last.method # "none" /\ Level(last.pre) # Level(session))
     => \/ /\ Level(last.pre) = "Anonymous"
           /\ Level(session) = "Authenticated"
           /\ last.method = "POST"
           /\ last.status = 200
           /\ enrolled[last.user] = {}
        \/ /\ Level(last.pre) = "Authenticated"
           /\ Level(session) = "Elevated"
           /\ last.method = "PUT"
           /\ last.status = 200
        \/ /\ Level(last.pre) \in {"Authenticated", "Elevated"}
           /\ Level(session) = "Anonymous"
           /\ last.method = "DELETE"
  /\ (last.method = "PUT" /\ Level(last.pre) = "Anonymous")
     => session = last.pre

\* a payload that is neither {password} nor {challenge, response}
Malformed ==
  /\ last.body.password = Absent
  /\ last.body.challenge = Absent \/ last.body.response = Absent

\* C14: an authenticated PUT with a payload that does not match the
\* VerificationRequest shape answers 400 with field errors, whatever the
\* fields it does carry would have verified; no collaborator is called and
\* the session is as it was.
C14_MalformedIsValidationError ==
  (last.method = "PUT" /\ last.user # None /\ Malformed)
  => /\ last.status = 400
     /\ last.data = Data("errors")
     /\ last.calls = <<>>
     /\ ~last.authenticated
     /\ session = last.pre

C14_Witness ==
  /\ last.method = "PUT"
  /\ last.user # None
  /\ u2fRegistered
  /\ "u2f" \in enrolled[last.user]
  /\ last.body = [password |-> Absent, challenge |-> Absent,
                  response |-> "{\"sig\":\"good\"}"]
  /\ last.status = 400

\* C15: a POST or PUT that succeeds returns what a GET issued next on the
\* same session returns: status 200 with the view of the identity that was
\* just logged in and isSuperuser equal to that identity's superuser bit.
C15_SuccessReturnsRead ==
  (last.method \in {"POST", "PUT"} /\ last.status = 200)
  => /\ get(None, EmptyBody, session).status = 200
     /\ last.data = get(None, EmptyBody, session).data
     /\ last.data = get(last.basic, EmptyBody, session).data
     /\ last.data.kind = "identity"
     /\ last.data.id = last.user
     /\ last.data.isSuperuser = (last.user = 1)

C15_Witness ==
  /\ last.method = "POST"
  /\ last.status = 200
  /\ last.basic = 1
  /\ last.pre.is_authenticated
  /\ last.pre.identity_id = 2
  /\ last.data.isSuperuser

\* C16: GET leaves the session as it was and calls none of login,
\* elevatePrivilege and logout; for an authenticated session it answers 200
\* with isSuperuser equal to the identity's superuser bit, elevated or not.
C16_GetIsPureRead ==
  last.method = "GET"
  => /\ session = last.pre
     /\ last.calls = <<>>
     /\ last.pre.is_authenticated
        => /\ last.status = 200
           /\ last.data.kind = "identity"
           /\ last.data.id = last.pre.identity_id
           /\ last.data.isSuperuser = (last.pre.identity_id = 1)

C16_Witness ==
  /\ last.method = "GET"
  /\ last.pre.is_authenticated
  /\ last.pre.identity_id = 1
  /\ ~last.pre.privilege_elevated
  /\ last.status = 200
  /\ last.data.isSuperuser

\* C17: an elevated session is always an authenticated one: DELETE clears
\* the elevation together with the identity, and a session established by
\* POST from anonymous is not elevated.
C17_ElevatedImpliesAuthenticated ==
  /\ session.privilege_elevated => session.is_authenticated
  /\ session.is_authenticated => session.identity_id # None
  /\ last.method = "DELETE"
     => ~session.privilege_elevated /\ ~session.is_authenticated
  /\ (last.method = "POST" /\ ~last.pre.is_authenticated)
     => ~session.privilege_elevated

C17_Witness ==
  /\ last.method = "DELETE"
  /\ last.pre.privilege_elevated
  /\ last.pre.is_authenticated
  /\ ~session.privilege_elevated
  /\ ~session.is_authenticated

\* C18: a PUT that ends in InvalidCredentials leaves the session as it
\* was, calls neither login nor logout, and an elevated session stays
\* elevated for the same identity.
C18_InvalidCredentialsKeepsSession ==
  (last.method = "PUT" /\ InvalidCredentials)
  => /\ session = last.pre
     /\ ~Called("login")
     /\ ~Called("logout")
     /\ ~Called("elevatePrivilege")
     /\ last.pre.privilege_elevated
        => /\ session.privilege_elevated
           /\ session.is_authenticated
           /\ session.identity_id = last.pre.identity_id

C18_Witness ==
  /\ last.method = "PUT"
  /\ InvalidCredentials
  /\ last.basic = None
  /\ last.body.password = "wrong"
  /\ last.calls = <<"checkPassword">>
  /\ last.pre.privilege_elevated
  /\ session.privilege_elevated

====
